---- MODULE Spec2Model ----
(***************************************************************************)
(* The rich-text formatting engine of src/app.js (applyInlineStyle,        *)
(* applyBlockFormat, toggleList) over the DOM of the page.                 *)
(*                                                                         *)
(* A node is a record [tag, kids, data]: a Text node has tag "#text", no   *)
(* kids and its characters in data; an element has its tag name, its child *)
(* nodes in kids and empty data.  A node is addressed by its path from the *)
(* page's BODY: the sequence of (1-based) child indices.  A boundary point *)
(* of a Range is a path and a (0-based) DOM offset.                        *)
(***************************************************************************)
EXTENDS Integers, Sequences, FiniteSets, TLC

VARIABLES page, sel, last, ops, store, folders, app, ed, queue, readers, hist, view

\* the page and the selection of the formatting engine
docVars == <<page, sel, last, ops>>

\* the database, appState, the editor's fields and the pending work of the
\* host, and the notes list with its filters
hostVars == <<store, folders, app, ed, queue, readers, hist, view>>

vars == <<page, sel, last, ops, store, folders, app, ed, queue, readers, hist, view>>

(***************************************************************************)
(* Nodes                                                                   *)
(***************************************************************************)
TextTag == "#text"

Text(d) == [tag |-> TextTag, kids |-> <<>>, data |-> d]

Elem(t, ks) == [tag |-> t, kids |-> ks, data |-> <<>>]

IsText(n) == n.tag = TextTag

\* Node.length of the DOM: characters of a Text node, children of an element
NodeLength(n) == IF IsText(n) THEN Len(n.data) ELSE Len(n.kids)

RECURSIVE Flatten(_)
\* concatenation of a sequence of sequences
Flatten(ss) == IF ss = <<>> THEN <<>> ELSE Head(ss) \o Flatten(Tail(ss))

RECURSIVE TextContent(_)
\* Node.textContent: the data of all Text descendants in tree order
TextContent(n) ==
  IF IsText(n) THEN n.data
  ELSE Flatten([i \in 1..Len(n.kids) |-> TextContent(n.kids[i])])

RECURSIVE SumSeq(_)
SumSeq(xs) == IF xs = <<>> THEN 0 ELSE Head(xs) + SumSeq(Tail(xs))

RECURSIVE NodeCount(_)
\* the number of nodes of the tree n
NodeCount(n) == 1 + SumSeq([i \in 1..Len(n.kids) |-> NodeCount(n.kids[i])])

RECURSIVE NodeAt(_, _)
\* the node at path p below n
NodeAt(n, p) == IF p = <<>> THEN n ELSE NodeAt(n.kids[Head(p)], Tail(p))

RECURSIVE HasPath(_, _)
HasPath(n, p) ==
  \/ p = <<>>
  \/ /\ Head(p) \in 1..Len(n.kids)
     /\ HasPath(n.kids[Head(p)], Tail(p))

RECURSIVE SetKids(_, _, _)
\* n with the child list of the node at path p replaced by ks
SetKids(n, p, ks) ==
  IF p = <<>> THEN [n EXCEPT !.kids = ks]
  ELSE [n EXCEPT !.kids[Head(p)] = SetKids(n.kids[Head(p)], Tail(p), ks)]

RECURSIVE SetNode(_, _, _)
\* n with the node at path p replaced by m
SetNode(n, p, m) ==
  IF p = <<>> THEN m
  ELSE [n EXCEPT !.kids[Head(p)] = SetNode(n.kids[Head(p)], Tail(p), m)]

Parent(p) == SubSeq(p, 1, Len(p) - 1)

Last(p) == p[Len(p)]

IsPrefix(p, q) == Len(p) <= Len(q) /\ SubSeq(q, 1, Len(p)) = p

\* the children of the node at p, with children i..j (1-based, inclusive)
\* replaced by the nodes ns
Splice(ks, i, j, ns) == SubSeq(ks, 1, i - 1) \o ns \o SubSeq(ks, j + 1, Len(ks))

RECURSIVE CommonPrefix(_, _)
CommonPrefix(p, q) ==
  IF p = <<>> \/ q = <<>> \/ Head(p) # Head(q) THEN <<>>
  ELSE <<Head(p)>> \o CommonPrefix(Tail(p), Tail(q))

RECURSIVE AllPaths(_)
\* the paths of all nodes of n, n itself included
AllPaths(n) ==
  {<<>>} \cup UNION {{<<i>> \o q : q \in AllPaths(n.kids[i])} : i \in 1..Len(n.kids)}

(***************************************************************************)
(* The page: BODY holds a block outside the editor (an entry of the notes  *)
(* list) and the editable element #noteBody.                               *)
(***************************************************************************)
EditorPath == <<2>>

NoPath == <<0>>

Page(aside, doc) == Elem("BODY", <<aside, Elem("DIV", doc)>>)

\* the children of #noteBody: the Document
Doc(pg) == NodeAt(pg, EditorPath).kids

InEditor(p) == IsPrefix(EditorPath, p)

(***************************************************************************)
(* Ranges (the DOM Range of window.getSelection()): has is FALSE when the  *)
(* selection holds no range (rangeCount = 0).                              *)
(***************************************************************************)
Range(sc, so, ec, eo) == [has |-> TRUE, sc |-> sc, so |-> so, ec |-> ec, eo |-> eo]

NoRange == [has |-> FALSE, sc |-> <<>>, so |-> 0, ec |-> <<>>, eo |-> 0]

\* Range.collapsed
Collapsed(r) == r.sc = r.ec /\ r.so = r.eo

\* Range.commonAncestorContainer
CommonAncestor(r) == CommonPrefix(r.sc, r.ec)

\* Range.selectNodeContents(node at p)
SelectNodeContents(pg, p) == Range(p, 0, p, NodeLength(NodeAt(pg, p)))

\* Range.collapse(true): to the start point
CollapseToStart(r) == Range(r.sc, r.so, r.sc, r.so)

\* Range.collapse(false): to the end point
CollapseToEnd(r) == Range(r.ec, r.eo, r.ec, r.eo)

\* a boundary point (p, o) of the tree pg
ValidPoint(pg, p, o) == HasPath(pg, p) /\ o \in 0..NodeLength(NodeAt(pg, p))

RECURSIVE PointBefore(_, _, _, _)
\* boundary point (p, o) is before or equal to (q, u) in tree order
PointBefore(p, o, q, u) ==
  IF p = q THEN o <= u
  ELSE IF p = <<>> THEN o < Head(q)          \* p is an ancestor of q
  ELSE IF q = <<>> THEN Head(p) <= u         \* q is an ancestor of p
  ELSE IF Head(p) = Head(q) THEN PointBefore(Tail(p), o, Tail(q), u)
  ELSE Head(p) < Head(q)

ValidRange(pg, r) ==
  /\ r.has
  /\ ValidPoint(pg, r.sc, r.so)
  /\ ValidPoint(pg, r.ec, r.eo)
  /\ PointBefore(r.sc, r.so, r.ec, r.eo)

RECURSIVE ExtractC(_, _, _, _, _)
\* Range.extractContents / deleteContents on the range (sp, so)-(ep, eo)
\* whose common ancestor container is n (sp, ep are paths below n):
\* rest is n after the extraction, frag the children of the fragment.
ExtractC(n, sp, so, ep, eo) ==
  IF IsText(n)
  THEN [rest |-> Text(SubSeq(n.data, 1, so) \o SubSeq(n.data, eo + 1, Len(n.data))),
        frag |-> <<Text(SubSeq(n.data, so + 1, eo))>>]
  ELSE
    LET ks == n.kids
        \* first and last partially contained child, when there is one
        first == IF sp = <<>> THEN <<>>
                 ELSE <<ExtractC(ks[Head(sp)], Tail(sp), so,
                                 <<>>, NodeLength(ks[Head(sp)]))>>
        last_ == IF ep = <<>> THEN <<>>
                 ELSE <<ExtractC(ks[Head(ep)], <<>>, 0, Tail(ep), eo)>>
        Clone(c, x) == IF IsText(c) THEN x.frag[1] ELSE [c EXCEPT !.kids = x.frag]
        firstClone == IF sp = <<>> THEN <<>> ELSE <<Clone(ks[Head(sp)], first[1])>>
        lastClone == IF ep = <<>> THEN <<>> ELSE <<Clone(ks[Head(ep)], last_[1])>>
        firstRest == IF sp = <<>> THEN <<>> ELSE <<first[1].rest>>
        lastRest == IF ep = <<>> THEN <<>> ELSE <<last_[1].rest>>
        \* the contained children are ks[lo..hi]
        lo == IF sp = <<>> THEN so + 1 ELSE Head(sp) + 1
        hi == IF ep = <<>> THEN eo ELSE Head(ep) - 1
        before == SubSeq(ks, 1, IF sp = <<>> THEN so ELSE Head(sp) - 1)
        after == SubSeq(ks, (IF ep = <<>> THEN eo + 1 ELSE Head(ep) + 1), Len(ks))
    IN [rest |-> [n EXCEPT !.kids = before \o firstRest \o lastRest \o after],
        frag |-> firstClone \o SubSeq(ks, lo, hi) \o lastClone]

\* Range.extractContents(): the tree after it, the fragment's children, and
\* the boundary point (c, o) the range is collapsed to
ExtractContents(pg, r) ==
  IF Collapsed(r) THEN [root |-> pg, frag |-> <<>>, c |-> r.sc, o |-> r.so]
  ELSE
    LET ca == CommonAncestor(r)
        sp == SubSeq(r.sc, Len(ca) + 1, Len(r.sc))
        ep == SubSeq(r.ec, Len(ca) + 1, Len(r.ec))
        x == ExtractC(NodeAt(pg, ca), sp, r.so, ep, r.eo)
    IN [root |-> SetNode(pg, ca, x.rest),
        frag |-> x.frag,
        c |-> IF sp = <<>> THEN r.sc ELSE ca,
        o |-> IF sp = <<>> THEN r.so ELSE Head(sp)]

\* Range.toString(): the text of the range
RangeToString(pg, r) ==
  LET f == ExtractContents(pg, r).frag
  IN Flatten([i \in 1..Len(f) |-> TextContent(f[i])])

\* InsertNode putting the node in front of a Text start node, unsplit
InsertNodeNoSplit(pg, c, o, node) ==
  LET at == NodeAt(pg, c)
  IN IF IsText(at)
     THEN [root |-> SetKids(pg, Parent(c),
                            Splice(NodeAt(pg, Parent(c)).kids, Last(c), Last(c) - 1, <<node>>)),
           path |-> c]
     ELSE [root |-> SetKids(pg, c, Splice(at.kids, o + 1, o, <<node>>)),
           path |-> c \o <<o + 1>>]

\* Range.insertNode(node) on a range collapsed at (c, o): a Text start node is
\* split at the offset; path is where the node ends up
InsertNode(pg, c, o, node) ==
  LET at == NodeAt(pg, c)
  IN IF IsText(at)
     THEN LET pp == Parent(c)
              i == Last(c)
              halves == <<Text(SubSeq(at.data, 1, o)), node,
                          Text(SubSeq(at.data, o + 1, Len(at.data)))>>
          IN [root |-> SetKids(pg, pp, Splice(NodeAt(pg, pp).kids, i, i, halves)),
              path |-> pp \o <<i + 1>>]
     ELSE [root |-> SetKids(pg, c, Splice(at.kids, o + 1, o, <<node>>)),
           path |-> c \o <<o + 1>>]

(***************************************************************************)
(* Selection utilities                                                     *)
(***************************************************************************)
BlockTags == {"P", "DIV", "H1", "H2", "H3", "H4", "H5", "H6", "BLOCKQUOTE", "LI"}

isBlockElement(n) == n.tag \in BlockTags

RECURSIVE FirstBlockUp(_, _)
FirstBlockUp(pg, p) ==
  IF p = EditorPath THEN NoPath
  ELSE IF isBlockElement(NodeAt(pg, p)) THEN p
  ELSE IF p = <<>> THEN NoPath
  ELSE FirstBlockUp(pg, Parent(p))

\* the nearest block element at or above the node at p, below #noteBody
findParentBlock(pg, p) ==
  FirstBlockUp(pg, IF IsText(NodeAt(pg, p)) THEN Parent(p) ELSE p)

RECURSIVE hasParentWithTag(_, _, _)
\* the nearest element with the tag at or above the node at p, below #noteBody
hasParentWithTag(pg, p, tagName) ==
  IF p = EditorPath THEN NoPath
  ELSE IF NodeAt(pg, p).tag = tagName THEN p
  ELSE IF p = <<>> THEN NoPath
  ELSE hasParentWithTag(pg, Parent(p), tagName)

\* unwrapElement removing the element together with its children
unwrapElementDrop(pg, p) ==
  SetKids(pg, Parent(p), Splice(NodeAt(pg, Parent(p)).kids, Last(p), Last(p), <<>>))

\* the children of the parent of the element at p after unwrapElement
unwrapElement(pg, p) ==
  LET pp == Parent(p)
  IN SetKids(pg, pp, Splice(NodeAt(pg, pp).kids, Last(p), Last(p), NodeAt(pg, p).kids))

(***************************************************************************)
(* innerHTML.  Markup is a sequence of items: a character of text, a       *)
(* character reference (the serializer writes "<" as &lt;), a start tag,   *)
(* an end tag, or the void tag <br>.                                       *)
(***************************************************************************)
Letters == {"a", "b", "c"}

Chars == Letters \cup {"<"}

Chr(c) == [k |-> "char", v |-> c]

Ref(c) == [k |-> "ref", v |-> c]

Open(t) == [k |-> "open", v |-> t]

Close(t) == [k |-> "close", v |-> t]

Br == [k |-> "br", v |-> "BR"]

\* a string of plain text as markup source: its characters, unescaped
Raw(d) == [i \in 1..Len(d) |-> Chr(d[i])]

RECURSIVE SerializeKids(_)
\* the innerHTML getter: the HTML fragment serialization of the children ks
SerializeKids(ks) ==
  IF ks = <<>> THEN <<>>
  ELSE LET n == Head(ks)
           me == IF IsText(n)
                 THEN [i \in 1..Len(n.data) |->
                         IF n.data[i] = "<" THEN Ref("<") ELSE Chr(n.data[i])]
                 ELSE IF n.tag = "BR" THEN <<Br>>
                 ELSE <<Open(n.tag)>> \o SerializeKids(n.kids) \o <<Close(n.tag)>>
       IN me \o SerializeKids(Tail(ks))

\* a character prepended to parsed children: it joins a leading Text node
ConsChar(c, ks) ==
  IF ks # <<>> /\ IsText(Head(ks))
  THEN <<Text(<<c>> \o Head(ks).data)>> \o Tail(ks)
  ELSE <<Text(<<c>>)>> \o ks

RECURSIVE ParseKids(_)
\* the innerHTML setter: the children parsed from markup, up to the end tag
\* that closes the enclosing element (rest is what follows it).  A "<"
\* before a letter opens a tag; Chars has no ">", so that tag runs to the
\* end of the input and is dropped with it.  Any other "<" is text.
ParseKids(items) ==
  IF items = <<>> THEN [kids |-> <<>>, rest |-> <<>>]
  ELSE
    LET h == Head(items)
        t == Tail(items)
    IN CASE h.k = "close" -> [kids |-> <<>>, rest |-> t]
         [] h.k = "open" ->
              LET inner == ParseKids(t)
                  more == ParseKids(inner.rest)
              IN [kids |-> <<Elem(h.v, inner.kids)>> \o more.kids, rest |-> more.rest]
         [] h.k = "br" ->
              LET more == ParseKids(t)
              IN [kids |-> <<Elem("BR", <<>>)>> \o more.kids, rest |-> more.rest]
         [] h.k = "ref" ->
              LET more == ParseKids(t)
              IN [kids |-> ConsChar(h.v, more.kids), rest |-> more.rest]
         [] h.k = "char" ->
              IF h.v = "<" /\ t # <<>> /\ Head(t).k = "char" /\ Head(t).v \in Letters
              THEN [kids |-> <<>>, rest |-> <<>>]
              ELSE LET more == ParseKids(t)
                   IN [kids |-> ConsChar(h.v, more.kids), rest |-> more.rest]

\* element.innerHTML = markup
SetInnerHTML(markup) == ParseKids(markup).kids

(***************************************************************************)
(* applyInlineStyle(tagName)                                               *)
(***************************************************************************)
\* the index of the first child of ks that is a Text node with the data d,
\* 0 when there is none (the loop of lines 137-145)
FirstTextWith(ks, d) ==
  LET hits == {i \in 1..Len(ks) : IsText(ks[i]) /\ ks[i].data = d}
  IN IF hits = {} THEN 0 ELSE CHOOSE i \in hits : \A j \in hits : i <= j

\* RemoveStyle leaving the selection on the range it had before the unwrap
RemoveStyleStaleRange(pg, r, e) == [page |-> unwrapElement(pg, e), sel |-> r]

\* toggle off: unwrap the element at path e and select the unwrapped text
RemoveStyle(pg, r, e) ==
  LET pp == Parent(e)
      textContent == TextContent(NodeAt(pg, e))
      freed == Len(NodeAt(pg, e).kids)
      root == unwrapElement(pg, e)
      found == FirstTextWith(NodeAt(root, pp).kids, textContent)
  IN [page |-> root,
      sel |-> IF found # 0 THEN SelectNodeContents(root, pp \o <<found>>)
              \* no Text child matches: the selection keeps its live range,
              \* which the removal of the element collapsed to where it was
              ELSE Range(pp, Last(e) - 1 + freed, pp, Last(e) - 1 + freed)]

\* toggle on: range.surroundContents(wrapper) and, when that throws (a
\* non-Text node is partially selected), extractContents + insertNode; both
\* leave the extracted contents in the wrapper at the start of the range
WrapRange(pg, r, tagName) ==
  LET x == ExtractContents(pg, r)
      ins == InsertNode(x.root, x.c, x.o, Elem(tagName, x.frag))
  IN [page |-> ins.root, sel |-> SelectNodeContents(ins.root, ins.path)]

\* applyInlineStyle removing the style whenever an ancestor has it, whatever
\* part of it is selected
applyInlineStyleAnyPart(pg, r, tagName) ==
  IF ~r.has \/ Collapsed(r) THEN [page |-> pg, sel |-> r]
  ELSE
    LET existingStyle == hasParentWithTag(pg, CommonAncestor(r), tagName)
    IN IF existingStyle # NoPath
       THEN RemoveStyle(pg, r, existingStyle)
       ELSE WrapRange(pg, r, tagName)

\* applyInlineStyle without the test of isRangeEmpty
applyInlineStyleOnEmpty(pg, r, tagName) ==
  IF ~r.has THEN [page |-> pg, sel |-> r]
  ELSE
    LET existingStyle == hasParentWithTag(pg, CommonAncestor(r), tagName)
    IN IF /\ existingStyle # NoPath
          /\ RangeToString(pg, r) = TextContent(NodeAt(pg, existingStyle))
       THEN RemoveStyle(pg, r, existingStyle)
       ELSE WrapRange(pg, r, tagName)

applyInlineStyle(pg, r, tagName) ==
  IF ~r.has \/ Collapsed(r) THEN [page |-> pg, sel |-> r]
  ELSE
    LET existingStyle == hasParentWithTag(pg, CommonAncestor(r), tagName)
    IN IF /\ existingStyle # NoPath
          /\ RangeToString(pg, r) = TextContent(NodeAt(pg, existingStyle))
       THEN RemoveStyle(pg, r, existingStyle)
       ELSE WrapRange(pg, r, tagName)

(***************************************************************************)
(* applyBlockFormat(tagName)                                               *)
(***************************************************************************)
\* innerHTML = range.toString() || '<br>'
TextOrBr(pg, r) ==
  IF RangeToString(pg, r) = <<>> THEN <<Br>> ELSE Raw(RangeToString(pg, r))

\* no block found: a new element holding the text of the range replaces the
\* contents of the range; the cursor goes to the end of the new element
InsertNewElement(pg, r, outer) ==
  LET x == ExtractContents(pg, r)               \* deleteContents
      ins == InsertNode(x.root, x.c, x.o, outer)
  IN ins

\* ReplaceTag copying textContent in place of innerHTML
ReplaceTagText(pg, b, tag) ==
  SetNode(pg, b, Elem(tag, <<Text(TextContent(NodeAt(pg, b)))>>))

\* the element at path b replaced by an element tag with the same innerHTML
ReplaceTag(pg, b, tag) ==
  SetNode(pg, b, Elem(tag, SetInnerHTML(SerializeKids(NodeAt(pg, b).kids))))

\* applyBlockFormat giving the block the requested tag even when it has it
applyBlockFormatSet(pg, r, tagName) ==
  IF ~r.has THEN [page |-> pg, sel |-> r]
  ELSE
    LET block == findParentBlock(pg, CommonAncestor(r))
    IN IF block = NoPath
       THEN LET ins == InsertNewElement(pg, r, Elem(tagName, SetInnerHTML(TextOrBr(pg, r))))
            IN [page |-> ins.root,
                sel |-> CollapseToEnd(SelectNodeContents(ins.root, ins.path))]
       ELSE LET root == ReplaceTag(pg, block, tagName)
            IN [page |-> root, sel |-> CollapseToEnd(SelectNodeContents(root, block))]

applyBlockFormat(pg, r, tagName) ==
  IF ~r.has THEN [page |-> pg, sel |-> r]
  ELSE
    LET block == findParentBlock(pg, CommonAncestor(r))
    IN IF block = NoPath
       THEN LET ins == InsertNewElement(pg, r, Elem(tagName, SetInnerHTML(TextOrBr(pg, r))))
            IN [page |-> ins.root,
                sel |-> CollapseToEnd(SelectNodeContents(ins.root, ins.path))]
       ELSE LET newTagName == IF NodeAt(pg, block).tag = tagName THEN "P" ELSE tagName
                root == ReplaceTag(pg, block, newTagName)
            IN [page |-> root, sel |-> CollapseToEnd(SelectNodeContents(root, block))]

(***************************************************************************)
(* toggleList(listType)                                                    *)
(***************************************************************************)
\* element.children.length: the number of element children
ChildElementCount(n) == Cardinality({i \in 1..Len(n.kids) : ~IsText(n.kids[i])})

\* the list found around the node at path common: a UL first, else an OL
ExistingList(pg, common) ==
  IF hasParentWithTag(pg, common, "UL") # NoPath
  THEN hasParentWithTag(pg, common, "UL")
  ELSE hasParentWithTag(pg, common, "OL")

\* ItemToParagraph that always replaces the item and keeps the list
ItemToParagraphInPlace(pg, existingList, li) ==
  LET p == Elem("P", SetInnerHTML(SerializeKids(NodeAt(pg, li).kids)))
      root == SetNode(pg, li, p)
  IN [page |-> root, sel |-> CollapseToEnd(SelectNodeContents(root, li))]

\* the paragraph that takes the place of the list item at path li: of the
\* whole list when the list has a single element child
ItemToParagraph(pg, existingList, li) ==
  LET p == Elem("P", SetInnerHTML(SerializeKids(NodeAt(pg, li).kids)))
      at == IF ChildElementCount(NodeAt(pg, existingList)) = 1 THEN existingList ELSE li
      root == SetNode(pg, at, p)
  IN [page |-> root, sel |-> CollapseToEnd(SelectNodeContents(root, at))]

\* MakeList putting the children of the block in the list, without an item
MakeListNoItem(pg, r, block, listType) ==
  IF block # NoPath /\ isBlockElement(NodeAt(pg, block))
  THEN LET root == SetNode(pg, block,
                           Elem(listType, SetInnerHTML(SerializeKids(NodeAt(pg, block).kids))))
       IN [page |-> root, sel |-> CollapseToEnd(SelectNodeContents(root, block))]
  ELSE LET ins == InsertNewElement(pg, r, Elem(listType, SetInnerHTML(TextOrBr(pg, r))))
       IN [page |-> ins.root,
           sel |-> CollapseToEnd(SelectNodeContents(ins.root, ins.path))]

\* a new list around the children of the block at path block, or around the
\* text of the range when there is no block
MakeList(pg, r, block, listType) ==
  IF block # NoPath /\ isBlockElement(NodeAt(pg, block))
  THEN LET li == Elem("LI", SetInnerHTML(SerializeKids(NodeAt(pg, block).kids)))
           root == SetNode(pg, block, Elem(listType, <<li>>))
       IN [page |-> root,
           sel |-> CollapseToEnd(SelectNodeContents(root, block \o <<1>>))]
  ELSE LET li == Elem("LI", SetInnerHTML(TextOrBr(pg, r)))
           ins == InsertNewElement(pg, r, Elem(listType, <<li>>))
       IN [page |-> ins.root,
           sel |-> CollapseToEnd(SelectNodeContents(ins.root, ins.path \o <<1>>))]

\* toggleList leaving the list only when the requested kind is the kind of
\* the list, and making a list of the requested kind otherwise
toggleListSameKind(pg, r, listType) ==
  IF ~r.has THEN [page |-> pg, sel |-> r]
  ELSE
    LET common == CommonAncestor(r)
        existingList == ExistingList(pg, common)
        li == hasParentWithTag(pg, common, "LI")
    IN IF existingList # NoPath /\ NodeAt(pg, existingList).tag = listType
       THEN IF li = NoPath THEN [page |-> pg, sel |-> r]
            ELSE ItemToParagraph(pg, existingList, li)
       ELSE MakeList(pg, r, findParentBlock(pg, common), listType)

toggleList(pg, r, listType) ==
  IF ~r.has THEN [page |-> pg, sel |-> r]
  ELSE
    LET common == CommonAncestor(r)
        block == findParentBlock(pg, common)
        existingList == ExistingList(pg, common)
        li == hasParentWithTag(pg, common, "LI")
    IN IF existingList # NoPath
       THEN IF li = NoPath THEN [page |-> pg, sel |-> r]
            ELSE ItemToParagraph(pg, existingList, li)
       ELSE MakeList(pg, r, block, listType)

(***************************************************************************)
(* The host: the notes and folders stores of the database, appState, the   *)
(* title input and the body of the editor, and the asynchronous handlers.  *)
(*                                                                         *)
(* A handler runs without interruption up to its next await.  Every await  *)
(* of the handlers waits for one database request (performTransaction):    *)
(* the request is put on queue with the label k of the code that follows   *)
(* the await.  Requests on one object store are served in the order they   *)
(* were made; requests on different stores are served in any order.  The   *)
(* content of a note is [of, v, imgs]: the note it was written for, its    *)
(* text, and the notes the images in it were dropped on.                   *)
(***************************************************************************)
NoContent == [of |-> 0, v |-> "", imgs |-> {}]

NoNote == [id |-> 0, title |-> "", content |-> NoContent, folderId |-> 0, modified |-> 0]

NoFolder == [id |-> 0, category |-> ""]

\* createNote('Sans titre', '', folderId) at time now, with the generated id
createNote(id, folderId, now) ==
  [id |-> id, title |-> "Sans titre", content |-> [of |-> id, v |-> "", imgs |-> {}],
   folderId |-> folderId, modified |-> now]

\* createFolder(name, category) with the generated id
createFolder(id, category) == [id |-> id, category |-> category]

\* updateNoteContent that takes the new timestamp and drops the updates
updateNoteContentStale(note, updates, now) == [note EXCEPT !.modified = now]

\* updateNoteContent(note, updates) at time now
updateNoteContent(note, updates, now) ==
  [f \in DOMAIN note |->
     IF f = "modified" THEN now
     ELSE IF f \in DOMAIN updates THEN updates[f] ELSE note[f]]

\* updateEditor(note): the title input, the body, contentEditable, and the
\* note the editor displays
updateEditor(note) ==
  IF note # NoNote
  THEN [title |-> note.title, body |-> note.content, editable |-> TRUE, shown |-> note.id]
  ELSE [title |-> "", body |-> NoContent, editable |-> FALSE, shown |-> 0]

\* event.target.value || 'Sans titre'
TitleOrDefault(v) == IF v = "" THEN "Sans titre" ELSE v

\* a request of performTransaction and the code waiting for it
Req(op, st, k, note, id, folder) ==
  [op |-> op, st |-> st, k |-> k, note |-> note, id |-> id, folder |-> folder]

\* update(STORES.NOTES, note), then the code labelled k
Update(note, k) == Req("put", "notes", k, note, note.id, NoFolder)

\* getAll(STORES.NOTES) of refreshNotesList
GetAllNotes(k, id) == Req("getAll", "notes", k, NoNote, id, NoFolder)

\* the store s with the note put in it
Put(s, note) == [i \in DOMAIN s \cup {note.id} |-> IF i = note.id THEN note ELSE s[i]]

\* the store s without the note id
Delete(s, id) == [i \in DOMAIN s \ {id} |-> s[i]]

\* the notes the store holds when the application starts
Store0 ==
  [i \in {1, 2} |->
     [id |-> i, title |-> "t", content |-> [of |-> i, v |-> "x", imgs |-> {}],
      folderId |-> 0, modified |-> 0]]

\* the texts and the titles a user types
Texts == {"x", "y"}

TypedTitles == {"", "u"}

Categories == {"projects"}

\* the number of actions of the user in a session
MaxEvents == 3

\* SaveRequests without the test of the current note
SaveRequestsUnguarded(currentNote, updates, now) ==
  <<Update(updateNoteContent(currentNote, updates, now), "saved")>>

\* the requests of handleNoteContentChange / handleNoteTitleChange: none
\* without a current note, else the update of the changed note
SaveRequests(currentNote, updates, now) ==
  IF currentNote = NoNote THEN <<>>
  ELSE <<Update(updateNoteContent(currentNote, updates, now), "saved")>>

NoToolbar == [id |-> 0, body |-> NoContent, before |-> NoNote, quiet |-> FALSE, fresh |-> FALSE]

Hist0 == [n |-> 0, last |-> "none", kinds |-> {}, tb |-> NoToolbar, deleted |-> {}]

\* appState after initializeApp
App0 == [currentNote |-> NoNote, currentFolder |-> 0, notes |-> Store0, folders |-> {}]

\* the notes, the filters and the sort key of appState with the notes list
\* that is displayed, before any note is loaded
NoView ==
  [notes |-> <<>>, currentFolder |-> 0, searchQuery |-> <<>>, sortBy |-> "modified",
   shown |-> <<>>]

\* the host when the application has started and nothing has been done
HostIdle ==
  /\ store = Store0
  /\ folders = {}
  /\ app = App0
  /\ ed = updateEditor(NoNote)
  /\ queue = <<>>
  /\ readers = <<>>
  /\ hist = Hist0
  /\ view = NoView

(***************************************************************************)
(* The state machine.  page is the DOM, sel the range of the window's      *)
(* selection, last the toolbar action that ran last together with the page *)
(* and the selection it found.                                             *)
(***************************************************************************)
\* formatActions
InlineTags == {"STRONG", "EM"}

BlockFormats == {"H1"}

ListTypes == {"UL", "OL"}

\* the number of toolbar actions of an editing session
MaxOps == 2

T(s) == Text(s)

\* an entry of the notes list, outside #noteBody
Aside == Elem("DIV", <<T(<<"a">>)>>)

\* the note bodies an editing session starts from
DocInline == <<Elem("P", <<T(<<"a", "b">>), Elem("EM", <<T(<<"c">>)>>)>>)>>

DocList3 ==
  <<Elem("UL", <<Elem("LI", <<T(<<"a">>)>>), Elem("LI", <<T(<<"b">>)>>),
                 Elem("LI", <<T(<<"c">>)>>)>>)>>

DocList2 == <<Elem("OL", <<Elem("LI", <<T(<<"a">>)>>), Elem("LI", <<T(<<"b">>)>>)>>)>>

DocTwin == <<Elem("P", <<T(<<"b">>), Elem("STRONG", <<T(<<"b">>)>>)>>)>>

DocBlocks == <<Elem("P", <<T(<<"a">>)>>), Elem("H1", <<T(<<"b">>)>>)>>

\* a first line typed into the empty editor: text directly in #noteBody
DocBare == <<T(<<"<", "a">>)>>

InitDocs == {DocInline, DocList3, DocList2, DocTwin, DocBlocks, DocBare}

\* the paths of the non-empty Text nodes at or below the node at path p
TextPaths(pg, p) ==
  {p \o q : q \in {x \in AllPaths(NodeAt(pg, p)) :
                     LET n == NodeAt(NodeAt(pg, p), x) IN IsText(n) /\ n.data # <<>>}}

\* the ranges a user draws with the mouse or keyboard below the node at p:
\* both boundary points in Text nodes
UserRanges(pg, p) ==
  {r \in {Range(sc, so, ec, eo) :
            sc \in TextPaths(pg, p), ec \in TextPaths(pg, p),
            so \in 0..3, eo \in 0..3} : ValidRange(pg, r)}

Done(op, tag) == [op |-> op, tag |-> tag, page |-> page, sel |-> sel]

Init ==
  /\ page \in {Page(Aside, d) : d \in InitDocs}
  /\ sel = NoRange
  /\ last = [op |-> "load", tag |-> "", page |-> page, sel |-> sel]
  /\ ops = 0
  /\ HostIdle

\* the user moves the selection inside the note body
Select ==
  /\ ops < MaxOps
  /\ ops' = ops
  /\ \E r \in UserRanges(page, EditorPath) : sel' = r
  /\ page' = page
  /\ last' = [op |-> "select", tag |-> "", page |-> page', sel |-> sel']
  /\ UNCHANGED hostVars

More == ops < MaxOps /\ ops' = ops + 1

\* handleToolbarAction(action) for the four inline styles
ToolbarInline ==
  /\ More
  /\ \E t \in InlineTags :
       /\ page' = applyInlineStyle(page, sel, t).page
       /\ sel' = applyInlineStyle(page, sel, t).sel
       /\ last' = Done("inline", t)
  /\ UNCHANGED hostVars

ToolbarBlock ==
  /\ More
  /\ \E t \in BlockFormats :
       /\ page' = applyBlockFormat(page, sel, t).page
       /\ sel' = applyBlockFormat(page, sel, t).sel
       /\ last' = Done("block", t)
  /\ UNCHANGED hostVars

ToolbarList ==
  /\ More
  /\ \E t \in ListTypes :
       /\ page' = toggleList(page, sel, t).page
       /\ sel' = toggleList(page, sel, t).sel
       /\ last' = Done("list", t)
  /\ UNCHANGED hostVars

Next == Select \/ ToolbarInline \/ ToolbarBlock \/ ToolbarList

Spec == Init /\ [][Next]_vars

(***************************************************************************)
(* The same machine with a user who also selects text of the page outside  *)
(* the note body: getSelectionAndRange takes the window's selection        *)
(* wherever it is, and a keyboard shortcut or a toolbar button then runs   *)
(* the action on it.                                                       *)
(***************************************************************************)
InitPage ==
  /\ page \in {Page(Aside, d) : d \in {DocTwin, DocList2}}
  /\ sel = NoRange
  /\ last = [op |-> "load", tag |-> "", page |-> page, sel |-> sel]
  /\ ops = 0
  /\ HostIdle

\* the user selects text of the notes list
SelectAside ==
  /\ ops < MaxOps
  /\ ops' = ops
  /\ \E r \in UserRanges(page, <<1>>) : sel' = r
  /\ page' = page
  /\ last' = [op |-> "select", tag |-> "", page |-> page', sel |-> sel']
  /\ UNCHANGED hostVars

NextPage == Select \/ SelectAside \/ ToolbarInline \/ ToolbarBlock \/ ToolbarList

SpecPage == InitPage /\ [][NextPage]_vars

(***************************************************************************)
(* The host machine: the actions of the user on the notes list, the title  *)
(* input, the note body, the toolbar and the category buttons, the load    *)
(* callbacks of the file readers, and the completion of the database       *)
(* requests.  Here the note body is the content record of the host; the    *)
(* formatting engine is the machine above.  hist records the session: the  *)
(* number n of actions of the user (the clock: Date.now() never goes       *)
(* back), the kind of the latest step, the kinds so far, the latest        *)
(* toolbar action (tb) and the ids of the notes deleted.                   *)
(***************************************************************************)
\* no request in flight and no file being read
Quiescent == queue = <<>> /\ readers = <<>>

\* the stored note with this id, NoNote (undefined) when there is none
Stored(id) == IF id \in DOMAIN store THEN store[id] ELSE NoNote

\* an action of the user of the given kind
Event(kind) ==
  [hist EXCEPT !.n = @ + 1, !.last = kind, !.kinds = @ \cup {kind}, !.tb.fresh = FALSE]

\* the application after initializeApp, or with the first note of the list
\* opened by a click that has completed
InitHost ==
  /\ page = Page(Aside, DocBlocks)
  /\ sel = NoRange
  /\ last = [op |-> "load", tag |-> "", page |-> page, sel |-> sel]
  /\ ops = 0
  /\ store = Store0
  /\ folders = {}
  /\ queue = <<>>
  /\ readers = <<>>
  /\ hist = Hist0
  /\ view = NoView
  /\ \E note \in {NoNote, Store0[1]} :
       /\ app = [App0 EXCEPT !.currentNote = note]
       /\ ed = updateEditor(note)

\* the notes of renderNotesList(getFilteredAndSortedNotes())
Listed ==
  {i \in DOMAIN app.notes : app.currentFolder = 0 \/ app.notes[i].folderId = app.currentFolder}

\* a click on an item of the notes list: handleNoteSelect(note.id) up to its
\* await
NoteClick ==
  /\ hist.n < MaxEvents
  /\ \E id \in Listed :
       queue' = Append(queue, Req("get", "notes", "select", NoNote, id, NoFolder))
  /\ hist' = Event("click")
  /\ UNCHANGED <<store, folders, app, ed, readers, docVars, view>>

\* the user types in the title input: handleNoteTitleChange up to its await
TitleInput ==
  /\ hist.n < MaxEvents
  /\ ed.editable
  /\ \E v \in TypedTitles \ {ed.title} :
       /\ ed' = [ed EXCEPT !.title = v]
       /\ queue' = queue \o SaveRequests(app.currentNote, [title |-> TitleOrDefault(v)],
                                         hist.n + 1)
  /\ hist' = Event("title")
  /\ UNCHANGED <<store, folders, app, readers, docVars, view>>

\* the user types in the note body: handleNoteContentChange up to its await
BodyInput ==
  /\ hist.n < MaxEvents
  /\ ed.editable
  /\ \E v \in Texts \ {ed.body.v} :
       /\ ed' = [ed EXCEPT !.body.v = v]
       /\ queue' = queue \o SaveRequests(app.currentNote, [content |-> ed'.body], hist.n + 1)
  /\ hist' = Event("body")
  /\ UNCHANGED <<store, folders, app, readers, docVars, view>>

\* handleToolbarAction(action) for a recognized action: formatFn() changes
\* the body or leaves it as it is, then handleNoteContentChange() up to its
\* await
Toolbar ==
  /\ hist.n < MaxEvents
  /\ \E v \in IF ed.editable THEN Texts ELSE {ed.body.v} :
       /\ ed' = [ed EXCEPT !.body.v = v]
       /\ queue' = queue \o SaveRequests(app.currentNote, [content |-> ed'.body], hist.n + 1)
       /\ hist' = [Event(IF v = ed.body.v THEN "noop" ELSE "toolbar") EXCEPT
                     !.tb = [id |-> app.currentNote.id, body |-> ed'.body,
                             before |-> Stored(app.currentNote.id),
                             quiet |-> Quiescent, fresh |-> TRUE]]
  /\ UNCHANGED <<store, folders, app, readers, docVars, view>>

\* handleExport: nothing without a current note, else the download of the
\* current note as text, which changes neither the stores nor appState
ExportClick ==
  /\ hist.n < MaxEvents
  /\ hist' = Event(IF app.currentNote = NoNote THEN "noexport" ELSE "export")
  /\ UNCHANGED <<store, folders, app, ed, queue, readers, docVars, view>>

\* handleDelete up to its await: nothing without a current note or when the
\* user does not confirm
DeleteClick ==
  /\ hist.n < MaxEvents
  /\ \E confirmDelete \in BOOLEAN :
       IF app.currentNote # NoNote /\ confirmDelete
       THEN /\ queue' = Append(queue, Req("delete", "notes", "deleted", NoNote,
                                          app.currentNote.id, NoFolder))
            /\ hist' = Event("delete")
       ELSE /\ queue' = queue
            /\ hist' = Event("cancel")
  /\ UNCHANGED <<store, folders, app, ed, readers, docVars, view>>

\* handleImageDrop / handleImagePaste with one image: a file reader starts;
\* it is tagged with the note the editor displays
ImageDrop ==
  /\ hist.n < MaxEvents
  /\ readers' = Append(readers, ed.shown)
  /\ hist' = Event("drop")
  /\ UNCHANGED <<store, folders, app, ed, queue, docVars, view>>

\* reader.onload: the image is appended to #noteBody, then
\* handleNoteContentChange() up to its await
ReaderLoad ==
  /\ readers # <<>>
  /\ \E i \in 1..Len(readers) :
       /\ readers' = Splice(readers, i, i, <<>>)
       /\ ed' = [ed EXCEPT !.body.imgs = @ \cup {readers[i]}]
  /\ queue' = queue \o SaveRequests(app.currentNote, [content |-> ed'.body], hist.n)
  /\ hist' = [hist EXCEPT !.last = "load", !.kinds = @ \cup {"load"}]
  /\ UNCHANGED <<store, folders, app, docVars, view>>

\* handleNewNoteInCategory(category) up to its first await that waits for
\* the database: with a folder of the category in appState.folders the note
\* is created and added, else the default folder is created and added
NewNoteInCategory ==
  /\ hist.n < MaxEvents
  /\ \E category \in Categories :
       LET categoryFolders == {f \in app.folders : f.category = category}
           now == hist.n + 1
       IN IF categoryFolders # {}
          THEN LET folder == CHOOSE f \in categoryFolders :
                               \A g \in categoryFolders : f.id <= g.id
               IN queue' = Append(queue, Req("add", "notes", "noteAdded",
                                            createNote(20 + now, folder.id, now), 0, folder))
          ELSE queue' = Append(queue, Req("add", "folders", "folderAdded", NoNote, 0,
                                          createFolder(10 + now, category)))
  /\ hist' = Event("new")
  /\ UNCHANGED <<store, folders, app, ed, readers, docVars, view>>

\* the request at position i can be served: no request made before it on the
\* same store is a write, and before a write there is none at all
CanServe(i) ==
  LET Write(r) == r.op \in {"put", "add", "delete"}
  IN \A j \in 1..(i - 1) :
       queue[j].st # queue[i].st \/ (~Write(queue[j]) /\ ~Write(queue[i]))

\* the transaction of a request completes (performTransaction resolves) and
\* the handler that awaits it runs up to its next await
Complete ==
  \E i \in 1..Len(queue) :
    /\ CanServe(i)
    /\ LET r == queue[i]
           rest == Splice(queue, i, i, <<>>)
       IN CASE r.k = "saved" ->
                 \* update(): setState({currentNote: updatedNote}), refreshNotesList()
                 /\ store' = Put(store, r.note)
                 /\ app' = [app EXCEPT !.currentNote = r.note]
                 /\ queue' = Append(rest, GetAllNotes("refresh", 0))
                 /\ UNCHANGED <<folders, ed, hist>>
            [] r.k = "refresh" ->
                 \* refreshNotesList after its await
                 /\ app' = [app EXCEPT !.notes = store]
                 /\ queue' = rest
                 /\ UNCHANGED <<store, folders, ed, hist>>
            [] r.k = "select" ->
                 \* handleNoteSelect after its await
                 /\ app' = [app EXCEPT !.currentNote = Stored(r.id)]
                 /\ ed' = updateEditor(Stored(r.id))
                 /\ queue' = rest
                 /\ UNCHANGED <<store, folders, hist>>
            [] r.k = "deleted" ->
                 \* handleDelete after remove()
                 /\ store' = Delete(store, r.id)
                 /\ app' = [app EXCEPT !.currentNote = NoNote]
                 /\ ed' = updateEditor(NoNote)
                 /\ queue' = Append(rest, GetAllNotes("refresh", 0))
                 /\ hist' = [hist EXCEPT !.deleted = @ \cup {r.id}]
                 /\ UNCHANGED folders
            [] r.k = "folderAdded" ->
                 \* getOrCreateDefaultFolder after add(): refreshFolders()
                 /\ folders' = folders \cup {r.folder}
                 /\ queue' = Append(rest, Req("getAll", "folders", "foldersRefreshed",
                                              NoNote, 0, r.folder))
                 /\ UNCHANGED <<store, app, ed, hist>>
            [] r.k = "foldersRefreshed" ->
                 \* refreshFolders after its await, the return of
                 \* getOrCreateDefaultFolder, createNote and add()
                 /\ app' = [app EXCEPT !.folders = folders]
                 /\ queue' = Append(rest, Req("add", "notes", "noteAdded",
                                              createNote(r.folder.id + 10, r.folder.id, hist.n),
                                              0, r.folder))
                 /\ UNCHANGED <<store, folders, ed, hist>>
            [] r.k = "noteAdded" ->
                 \* handleNewNoteInCategory after add(): the folder becomes
                 \* the current one, refreshNotesList()
                 /\ store' = Put(store, r.note)
                 /\ app' = [app EXCEPT !.currentFolder = r.folder.id]
                 /\ queue' = Append(rest, GetAllNotes("listRefreshed", r.note.id))
                 /\ UNCHANGED <<folders, ed, hist>>
            [] r.k = "listRefreshed" ->
                 \* refreshNotesList after its await, then
                 \* handleNoteSelect(note.id)
                 /\ app' = [app EXCEPT !.notes = store]
                 /\ queue' = Append(rest, Req("get", "notes", "select", NoNote, r.id, NoFolder))
                 /\ UNCHANGED <<store, folders, ed, hist>>
    /\ UNCHANGED <<readers, docVars, view>>

NextHost ==
  \/ NoteClick
  \/ TitleInput
  \/ BodyInput
  \/ Toolbar
  \/ ExportClick
  \/ DeleteClick
  \/ ImageDrop
  \/ ReaderLoad
  \/ NewNoteInCategory
  \/ Complete

SpecHost == InitHost /\ [][NextHost]_vars

(***************************************************************************)
(* Vocabulary of the properties                                            *)
(***************************************************************************)
RECURSIVE Normalize(_)
\* the children ks with empty Text nodes removed and adjacent Text nodes
\* merged, at every depth (text-node merge normalization)
Normalize(ks) ==
  IF ks = <<>> THEN <<>>
  ELSE LET n == Head(ks)
           more == Normalize(Tail(ks))
       IN IF IsText(n)
          THEN IF n.data = <<>> THEN more
               ELSE IF more # <<>> /\ IsText(Head(more))
                    THEN <<Text(n.data \o Head(more).data)>> \o Tail(more)
                    ELSE <<n>> \o more
          ELSE <<[n EXCEPT !.kids = Normalize(n.kids)]>> \o more

StyleKinds == {"STRONG", "EM", "U", "S"}

BlockKinds == {"P", "H1", "H2", "H3", "BLOCKQUOTE", "LI"}

ListKinds == {"UL", "OL"}

IsList(n) == n.tag \in ListKinds

RECURSIVE NearestUp(_, _, _)
\* the nearest node at or above path p, inside the Document, whose tag is in
\* tags; NoPath when there is none
NearestUp(pg, p, tags) ==
  IF ~InEditor(p) \/ p = EditorPath THEN NoPath
  ELSE IF NodeAt(pg, p).tag \in tags THEN p
  ELSE NearestUp(pg, Parent(p), tags)

\* the elements of the Document
ElemPaths(pg) ==
  {EditorPath \o q : q \in {x \in AllPaths(NodeAt(pg, EditorPath)) :
                              x # <<>> /\ ~IsText(NodeAt(NodeAt(pg, EditorPath), x))}}

\* the Document invariants of the data model, up to text-node merging:
\* blocks and lists at the root, list items in lists, no empty container
WellFormed(doc) ==
  LET root == Elem("DIV", Normalize(doc))
      ps == {q \in AllPaths(root) : q # <<>> /\ ~IsText(NodeAt(root, q))}
  IN /\ \A i \in 1..Len(root.kids) : root.kids[i].tag \in BlockKinds \cup ListKinds
     /\ \A q \in ps :
          LET n == NodeAt(root, q)
          IN /\ IsList(n) => \A i \in 1..Len(n.kids) : n.kids[i].tag = "LI"
             /\ n.tag # "BR" => n.kids # <<>>

Toggled == last.op \in {"inline", "block", "list"}

DocText(pg) == TextContent(NodeAt(pg, EditorPath))

TypeOK == sel.has => ValidRange(page, sel)

(***************************************************************************)
(* Properties                                                              *)
(***************************************************************************)

\* C1: an inline-style toggle applied twice, the second time on the
\* selection the first one left, gives back the Document it started from,
\* up to text-node merging -- for every well-formed Document, every
\* non-collapsed selection and every style.
C1_DoubleToggleRestores ==
  (/\ last.op = "inline"
   /\ last.sel.has /\ ~Collapsed(last.sel)
   /\ WellFormed(Doc(last.page)))
  => Normalize(Doc(applyInlineStyle(page, sel, last.tag).page))
       = Normalize(Doc(last.page))

\* C2: every child of every List node of the Document is a ListItem.
C2_ListChildrenAreItems ==
  \A q \in ElemPaths(page) :
    LET n == NodeAt(page, q)
    IN IsList(n) =>
         \A i \in 1..Len(n.kids) :
           n.kids[i].tag = "LI" \/ (IsText(n.kids[i]) /\ n.kids[i].data = <<>>)

\* C3: list-off on the middle item of a list [A, B, C] leaves one list
\* holding exactly [A, C] and, outside that list, a Paragraph with B's
\* content.
C3_MiddleItemLeavesList ==
  (/\ last.op = "list"
   /\ Doc(last.page) = DocList3
   /\ last.sel.has
   /\ IsPrefix(EditorPath \o <<1, 2>>, CommonAncestor(last.sel)))
  => LET d == Normalize(Doc(page))
         A == DocList3[1].kids[1]
         B == DocList3[1].kids[2]
         C == DocList3[1].kids[3]
     IN \E i, j \in 1..Len(d) :
          /\ i # j
          /\ d[i] = Elem("UL", <<A, C>>)
          /\ d[j] = Elem("P", B.kids)

\* C4: list-off in a list that has exactly one ListItem replaces the list
\* by one Paragraph holding the item's children.
C4_SingleItemCollapsesList ==
  LET l == NearestUp(last.page, last.sel.sc, ListKinds)
      li == NearestUp(last.page, CommonAncestor(last.sel), {"LI"})
      items == {i \in 1..Len(NodeAt(last.page, l).kids) :
                  NodeAt(last.page, l).kids[i].tag = "LI"}
  IN (/\ last.op = "list" /\ last.sel.has
      /\ l # NoPath /\ li # NoPath
      /\ Cardinality(items) = 1)
     => /\ HasPath(page, l)
        /\ NodeAt(page, l).tag = "P"
        /\ Normalize(NodeAt(page, l).kids) = Normalize(NodeAt(last.page, li).kids)

\* C5: the block-format toggle changes the kind of the nearest block that
\* encloses the start of the selection and nothing else: every other block
\* and all text stay as they were.
C5_OnlyStartBlockChanges ==
  LET b == NearestUp(last.page, last.sel.sc, BlockKinds)
      kind == IF NodeAt(last.page, b).tag = last.tag THEN "P" ELSE last.tag
  IN (last.op = "block" /\ last.sel.has /\ b # NoPath)
     => Normalize(Doc(page))
          = Normalize(Doc(SetNode(last.page, b, [NodeAt(last.page, b) EXCEPT !.tag = kind])))

\* C6 (as claimed): inside a list of the other kind the list toggle takes
\* the toggle-on path: a new list of the requested kind appears and no item
\* leaves its list.
CountTag(pg, tag) == Cardinality({q \in ElemPaths(pg) : NodeAt(pg, q).tag = tag})

InListItem(pg, r) ==
  /\ r.has
  /\ ExistingList(pg, CommonAncestor(r)) # NoPath
  /\ NearestUp(pg, CommonAncestor(r), {"LI"}) # NoPath

C6_OtherKindNests ==
  (/\ last.op = "list"
   /\ InListItem(last.page, last.sel)
   /\ NodeAt(last.page, ExistingList(last.page, CommonAncestor(last.sel))).tag # last.tag)
  => /\ CountTag(page, last.tag) = CountTag(last.page, last.tag) + 1
     /\ CountTag(page, "LI") >= CountTag(last.page, "LI")

\* C6 (amended): with the selection inside an item of a list (the nearest
\* UL around it, else the nearest OL), the list toggle takes the item out
\* whatever kind is requested, the other kind included: the Document has one
\* ListItem less and one Paragraph more, no list is made, and the text of
\* the Document is as it was.
C6_ListOffWhateverKind ==
  (last.op = "list" /\ InListItem(last.page, last.sel))
  => /\ CountTag(page, "LI") = CountTag(last.page, "LI") - 1
     /\ CountTag(page, "P") = CountTag(last.page, "P") + 1
     /\ CountTag(page, "UL") + CountTag(page, "OL")
          <= CountTag(last.page, "UL") + CountTag(last.page, "OL")
     /\ DocText(page) = DocText(last.page)

C6_Witness ==
  /\ last.op = "list"
  /\ InListItem(last.page, last.sel)
  /\ NodeAt(last.page, ExistingList(last.page, CommonAncestor(last.sel))).tag # last.tag
  /\ CountTag(page, "LI") = CountTag(last.page, "LI") - 1

\* C7: a toggle run on a selection outside the note body changes no node
\* and leaves the selection as it was.
C7_OutsideSelectionRejected ==
  (Toggled /\ last.sel.has /\ ~InEditor(last.sel.sc))
  => (page = last.page /\ sel = last.sel)

\* C8: after an inline toggle-off the selection spans exactly the text of
\* the unwrapped node, where that node was.
C8_ToggleOffSelectsFreedText ==
  LET e == NearestUp(last.page, CommonAncestor(last.sel), {last.tag})
      node == NodeAt(last.page, e)
      pp == Parent(e)
      from == Last(e) - 1
  IN (/\ last.op = "inline"
      /\ last.sel.has /\ ~Collapsed(last.sel)
      /\ e # NoPath
      /\ RangeToString(last.page, last.sel) = TextContent(node))
     => /\ sel.has
        /\ RangeToString(page, sel) = TextContent(node)
        /\ PointBefore(pp, from, sel.sc, sel.so)
        /\ PointBefore(sel.ec, sel.eo, pp, from + Len(node.kids))

\* C9: a toggle run on a selection of the Document leaves a selection whose
\* boundary points are nodes of the resulting Document, with offsets within
\* their bounds.
InDocument(pg, r) ==
  /\ ValidRange(pg, r)
  /\ InEditor(r.sc)
  /\ InEditor(r.ec)

C9_SelectionValid ==
  (Toggled /\ InDocument(last.page, last.sel)) => InDocument(page, sel)

\* an unwrap or a replacement happened, under a selection inside the node
C9_Witness ==
  /\ Toggled
  /\ InDocument(last.page, last.sel)
  /\ page # last.page
  /\ NodeCount(page) < NodeCount(last.page)
  /\ InDocument(page, sel)

\* C10: a toggle on a non-collapsed selection leaves the flattened text of
\* the Document as it was.
C10_TextPreserved ==
  (Toggled /\ last.sel.has /\ ~Collapsed(last.sel))
  => DocText(page) = DocText(last.page)

\* the inline toggle takes its remove branch on the range r
TogglesOff(pg, r, tag) ==
  LET e == NearestUp(pg, CommonAncestor(r), {tag})
  IN e # NoPath /\ RangeToString(pg, r) = TextContent(NodeAt(pg, e))

HelloWorld == <<"h", "e", "l", "l", "o", " ", "w", "o", "r", "l", "d">>

\* the inline toggle ran on part (or all) of one text run, to style it
OneRunStyled ==
  /\ last.op = "inline"
  /\ last.sel.has /\ ~Collapsed(last.sel)
  /\ last.sel.sc = last.sel.ec
  /\ IsText(NodeAt(last.page, last.sel.sc))
  /\ ~TogglesOff(last.page, last.sel, last.tag)

\* C11: Bold over characters 0..5 of [Paragraph["hello world"]] gives
\* [Paragraph[Bold["hello"], " world"]], and every toggle-on over a
\* sub-range of one text run puts exactly the selected characters in one new
\* Styled node of the requested style, between the unselected text before
\* and after it, with the selection spanning the content of the new node
\* (up to text-node merging).
C11_WrapsSelectedRun ==
  /\ LET d == Page(Aside, <<Elem("P", <<Text(HelloWorld)>>)>>)
         x == applyInlineStyle(d, Range(<<2, 1, 1>>, 0, <<2, 1, 1>>, 5), "STRONG")
     IN /\ Normalize(Doc(x.page))
             = <<Elem("P", <<Elem("STRONG", <<Text(SubSeq(HelloWorld, 1, 5))>>),
                             Text(SubSeq(HelloWorld, 6, 11))>>)>>
        /\ x.sel.has /\ x.sel.sc = x.sel.ec
        /\ NodeAt(x.page, x.sel.sc) = Elem("STRONG", <<Text(SubSeq(HelloWorld, 1, 5))>>)
        /\ x.sel = SelectNodeContents(x.page, x.sel.sc)
  /\ OneRunStyled =>
       LET t == NodeAt(last.page, last.sel.sc).data
           pp == Parent(last.sel.sc)
           i == Last(last.sel.sc)
           styled == Elem(last.tag, <<Text(SubSeq(t, last.sel.so + 1, last.sel.eo))>>)
           parts == <<Text(SubSeq(t, 1, last.sel.so)), styled,
                      Text(SubSeq(t, last.sel.eo + 1, Len(t)))>>
       IN /\ Normalize(Doc(page))
               = Normalize(Doc(SetKids(last.page, pp,
                                       Splice(NodeAt(last.page, pp).kids, i, i, parts))))
          /\ sel.has /\ sel.sc = sel.ec /\ Parent(sel.sc) = pp
          /\ NodeAt(page, sel.sc) = styled
          /\ sel = SelectNodeContents(page, sel.sc)

\* a proper part of a text run was styled
C11_Witness ==
  /\ OneRunStyled
  /\ last.sel.so > 0
  /\ NodeAt(page, sel.sc).tag = last.tag
  /\ TextContent(NodeAt(page, sel.sc)) = RangeToString(last.page, last.sel)

\* C12: an inline-style toggle on a collapsed selection leaves the Document
\* and the selection as they were.
C12_CollapsedInlineNoOp ==
  (last.op = "inline" /\ last.sel.has /\ Collapsed(last.sel))
  => (page = last.page /\ sel = last.sel)

C12_Witness ==
  /\ last.op = "inline"
  /\ last.sel.has /\ Collapsed(last.sel)
  /\ InEditor(last.sel.sc)
  /\ sel = last.sel

\* the block the last toggle found around the whole selection
EnclosingBlock == NearestUp(last.page, CommonAncestor(last.sel), BlockKinds)

BlockToggled == last.op = "block" /\ last.sel.has /\ EnclosingBlock # NoPath

\* C13: with a block around the selection, the block-format toggle for kind
\* K puts in its place a Paragraph when the block is of kind K and a block
\* of kind K otherwise, with the same children in the same order (up to
\* text-node merging), and changes nothing else.
C13_BlockKindReplaced ==
  BlockToggled =>
    LET b == EnclosingBlock
        old == NodeAt(last.page, b)
        kind == IF old.tag = last.tag THEN "P" ELSE last.tag
    IN /\ HasPath(page, b)
       /\ NodeAt(page, b).tag = kind
       /\ Normalize(NodeAt(page, b).kids) = Normalize(old.kids)
       /\ Len(NodeAt(page, Parent(b)).kids) = Len(NodeAt(last.page, Parent(b)).kids)
       /\ Normalize(Doc(page))
            = Normalize(Doc(SetNode(last.page, b, [old EXCEPT !.tag = kind])))

\* a block of the requested kind, with a styled child, became a Paragraph
C13_Witness ==
  /\ BlockToggled
  /\ NodeAt(last.page, EnclosingBlock).tag = last.tag
  /\ \E i \in 1..Len(NodeAt(last.page, EnclosingBlock).kids) :
       ~IsText(NodeAt(last.page, EnclosingBlock).kids[i])
  /\ NodeAt(page, EnclosingBlock).tag = "P"

\* C14: on a block of kind Paragraph or K, a second toggle of kind K gives
\* the block its first kind back and a third gives the kind the first one
\* gave (Paragraph, Heading1, Paragraph, Heading1), the children being the
\* same at every step.
C14_BlockToggleReversible ==
  (BlockToggled /\ NodeAt(last.page, EnclosingBlock).tag \in {"P", last.tag}) =>
    LET b == EnclosingBlock
        second == applyBlockFormat(page, sel, last.tag)
        third == applyBlockFormat(second.page, second.sel, last.tag)
    IN /\ NodeAt(page, b).tag # NodeAt(last.page, b).tag
       /\ NodeAt(second.page, b).tag = NodeAt(last.page, b).tag
       /\ NodeAt(third.page, b).tag = NodeAt(page, b).tag
       /\ Normalize(Doc(second.page)) = Normalize(Doc(last.page))
       /\ Normalize(Doc(third.page)) = Normalize(Doc(page))
       /\ Normalize(NodeAt(page, b).kids) = Normalize(NodeAt(last.page, b).kids)

\* a Paragraph became a Heading1 that the next toggle makes a Paragraph
C14_Witness ==
  /\ BlockToggled
  /\ NodeAt(last.page, EnclosingBlock).tag = "P"
  /\ NodeAt(page, EnclosingBlock).tag = "H1"
  /\ NodeAt(applyBlockFormat(page, sel, "H1").page, EnclosingBlock).tag = "P"

\* no Text node with characters and no Styled node is a child of the root
NoInlineAtRoot(doc) ==
  \A i \in 1..Len(doc) :
    /\ doc[i].tag \notin StyleKinds
    /\ IsText(doc[i]) => doc[i].data = <<>>

\* C15: a toggle on a Document that satisfies the invariants leaves no
\* inline node (Text or Styled) as a direct child of the Document root.
C15_NoInlineUnderRoot ==
  (Toggled /\ WellFormed(Doc(last.page))) => NoInlineAtRoot(Doc(page))

\* no Styled node and no Block of the Document is empty once empty Text
\* nodes are left out (a line-break placeholder is content)
NoEmptyContainer(doc) ==
  LET root == Elem("DIV", Normalize(doc))
  IN \A q \in AllPaths(root) :
       NodeAt(root, q).tag \in StyleKinds \cup BlockKinds => NodeAt(root, q).kids # <<>>

\* C16: a toggle on a Document that satisfies the invariants leaves no
\* Styled node and no Block with empty content.
C16_NoEmptyStyledOrBlock ==
  (Toggled /\ WellFormed(Doc(last.page))) => NoEmptyContainer(Doc(page))

\* the list toggle ran with a block, and no list, around the selection
ListMadeOfBlock ==
  /\ last.op = "list" /\ last.sel.has
  /\ NearestUp(last.page, CommonAncestor(last.sel), ListKinds) = NoPath
  /\ NearestUp(last.page, CommonAncestor(last.sel), BlockKinds) # NoPath

\* C17: with the selection in no list and a block around it, the list toggle
\* for kind L puts in the place of that block a List of kind L holding one
\* ListItem whose children are the children the block had (up to text-node
\* merging), and changes nothing else.
C17_BlockBecomesList ==
  ListMadeOfBlock =>
    LET b == NearestUp(last.page, CommonAncestor(last.sel), BlockKinds)
        old == NodeAt(last.page, b)
    IN /\ HasPath(page, b)
       /\ NodeAt(page, b).tag = last.tag
       /\ Len(NodeAt(page, b).kids) = 1
       /\ NodeAt(page, b).kids[1].tag = "LI"
       /\ Normalize(NodeAt(page, b).kids[1].kids) = Normalize(old.kids)
       /\ Normalize(Doc(page))
            = Normalize(Doc(SetNode(last.page, b, Elem(last.tag, <<Elem("LI", old.kids)>>))))

\* a block with a styled child became the single item of an ordered list
C17_Witness ==
  /\ ListMadeOfBlock
  /\ last.tag = "OL"
  /\ Len(NodeAt(last.page, NearestUp(last.page, CommonAncestor(last.sel), BlockKinds)).kids) > 1
  /\ CountTag(page, "OL") = CountTag(last.page, "OL") + 1

\* C18: after a block-format toggle or a list toggle that changes the
\* Document, the selection is collapsed at the end of the content of the
\* block the toggle made: the converted or new block, the new list item, or
\* the Paragraph that list-off made.
C18_CursorAtEndOfNewBlock ==
  (last.op \in {"block", "list"} /\ last.sel.has /\ page # last.page) =>
    /\ sel.has /\ Collapsed(sel)
    /\ HasPath(page, sel.sc)
    /\ ~IsText(NodeAt(page, sel.sc))
    /\ sel.so = Len(NodeAt(page, sel.sc).kids)
    /\ LET b == NearestUp(last.page, CommonAncestor(last.sel), BlockKinds)
           made == NodeAt(page, sel.sc)
       IN IF last.op = "block"
          THEN /\ made.tag \in {"P", last.tag}
               /\ b # NoPath => sel.sc = b
          ELSE IF InListItem(last.page, last.sel)
          THEN made.tag = "P"
          ELSE /\ made.tag = "LI"
               /\ NodeAt(page, Parent(sel.sc)).tag = last.tag
               /\ b # NoPath => sel.sc = b \o <<1>>

\* the cursor stands after the two children of a converted block
C18_Witness ==
  /\ last.op \in {"block", "list"} /\ last.sel.has /\ page # last.page
  /\ sel.has /\ Collapsed(sel)
  /\ ~IsText(NodeAt(page, sel.sc))
  /\ sel.so = 2
  /\ Len(NodeAt(page, sel.sc).kids) = 2

\* the block-format toggle ran with no block around the selection
NoBlockFormatted ==
  /\ last.op = "block" /\ last.sel.has
  /\ NearestUp(last.page, CommonAncestor(last.sel), BlockKinds) = NoPath

\* C19: with no block around the selection, the block-format toggle makes a
\* block of the requested kind whose content is the selected text (the
\* line-break placeholder when the selection is collapsed), takes the
\* selected range out and puts the new block where it was -- the text of the
\* Document reads as before -- and leaves the selection collapsed at the end
\* of the new block.
C19_NoBlockBuildsBlock ==
  NoBlockFormatted =>
    /\ sel.has /\ Collapsed(sel)
    /\ HasPath(page, sel.sc)
    /\ NodeAt(page, sel.sc).tag = last.tag
    /\ sel.so = Len(NodeAt(page, sel.sc).kids)
    /\ IF Collapsed(last.sel)
       THEN NodeAt(page, sel.sc).kids = <<Elem("BR", <<>>)>>
       ELSE NodeAt(page, sel.sc).kids = <<Text(RangeToString(last.page, last.sel))>>
    /\ DocText(page) = DocText(last.page)

\* the inline toggle ran on part of the text of a Styled node of its style
PartOfStyled ==
  /\ last.op = "inline"
  /\ last.sel.has /\ ~Collapsed(last.sel)
  /\ NearestUp(last.page, CommonAncestor(last.sel), {last.tag}) # NoPath
  /\ Len(RangeToString(last.page, last.sel))
       < Len(TextContent(NodeAt(last.page,
                                NearestUp(last.page, CommonAncestor(last.sel), {last.tag}))))

\* the inline toggle ran on a selection that crosses the boundary of a span
\* of another style
CrossesSpan ==
  /\ last.op = "inline"
  /\ last.sel.has /\ ~Collapsed(last.sel)
  /\ Parent(last.sel.sc) # Parent(last.sel.ec)
  /\ NearestUp(last.page, CommonAncestor(last.sel), {last.tag}) = NoPath

Unwrapped ==
  /\ last.op = "inline"
  /\ last.sel.has /\ ~Collapsed(last.sel)
  /\ TogglesOff(last.page, last.sel, last.tag)

\* the children of the parent of the unwrapped node as a splice leaves them
SplicedKids ==
  LET e == NearestUp(last.page, CommonAncestor(last.sel), {last.tag})
  IN Splice(NodeAt(last.page, Parent(e)).kids, Last(e), Last(e), NodeAt(last.page, e).kids)

\* no two adjacent nodes of ks are both Text nodes
NoAdjacentText(ks) == \A i \in 1..(Len(ks) - 1) : ~(IsText(ks[i]) /\ IsText(ks[i + 1]))

\* C21 (as claimed): after an inline toggle-off the freed children stand
\* where the removed node was, in their order, and no two adjacent children
\* of that parent are both Text nodes.
C21_UnwrapMergesText ==
  Unwrapped =>
    LET pp == Parent(NearestUp(last.page, CommonAncestor(last.sel), {last.tag}))
    IN /\ Normalize(NodeAt(page, pp).kids) = Normalize(SplicedKids)
       /\ NoAdjacentText(NodeAt(page, pp).kids)

\* C21 (amended): after an inline toggle-off the children of the parent are
\* exactly the former ones with the freed children, in their order, in the
\* place of the removed node: no Text node is merged with its neighbour, and
\* nothing else in the page changes.
C21_UnwrapSplicesChildren ==
  Unwrapped =>
    LET pp == Parent(NearestUp(last.page, CommonAncestor(last.sel), {last.tag}))
    IN /\ NodeAt(page, pp).kids = SplicedKids
       /\ page = SetKids(last.page, pp, SplicedKids)

\* the freed text stands next to another Text node, unmerged
C21_Witness ==
  /\ Unwrapped
  /\ ~NoAdjacentText(SplicedKids)
  /\ \E i \in 1..(Len(SplicedKids) - 1) :
       /\ IsText(SplicedKids[i]) /\ SplicedKids[i].data # <<>>
       /\ IsText(SplicedKids[i + 1]) /\ SplicedKids[i + 1].data # <<>>
  /\ NodeAt(page, Parent(NearestUp(last.page, CommonAncestor(last.sel), {last.tag}))).kids
       = SplicedKids

\* C24: with the selection inside a list, the list toggle turns the list
\* item that holds the start of the selection into a Paragraph with the
\* item's content -- also when the selection spans several items, and in a
\* list that lost other items before.
C24_StartItemLeavesList ==
  LET l == NearestUp(last.page, last.sel.sc, ListKinds)
      li == NearestUp(last.page, last.sel.sc, {"LI"})
  IN (/\ last.op = "list" /\ last.sel.has
      /\ l # NoPath /\ li # NoPath
      /\ IsPrefix(l, last.sel.ec))
     => /\ page # last.page
        /\ CountTag(page, "LI") = CountTag(last.page, "LI") - 1
        /\ \E at \in {l, li} :
             /\ HasPath(page, at)
             /\ NodeAt(page, at).tag = "P"
             /\ Normalize(NodeAt(page, at).kids) = Normalize(NodeAt(last.page, li).kids)


(***************************************************************************)
(* Properties of the host                                                  *)
(***************************************************************************)
\* the positions in queue of the saves (update of the notes store) of the
\* note id that have started and not completed
SavesInFlight(id) == {i \in 1..Len(queue) : queue[i].op = "put" /\ queue[i].id = id}

\* C22: at any moment at most one save of a note is in flight: a second
\* save of the same note does not start before the previous one has
\* completed.
C22_OneSaveInFlight == \A i \in 1..Len(queue) : Cardinality(SavesInFlight(queue[i].id)) <= 1


\* a toolbar action ran with a note open, the user has done nothing since,
\* and every request and every file reader has completed
ToolbarSettled == hist.tb.fresh /\ hist.tb.id # 0 /\ Quiescent

\* the stored note of the toolbar action holds the body as it was after the
\* toggle, with a timestamp not earlier than the one before the action
ToolbarSaved ==
  /\ Stored(hist.tb.id).content = hist.tb.body
  /\ Stored(hist.tb.id).modified >= hist.tb.before.modified

\* C23 as stated: after a toolbar action on an open note, once all pending
\* handlers (the load callbacks of the file readers among them) have
\* completed, the stored note has the body as it was after the toggle.
C23_ToolbarSaveStoredAnyHandler == ToolbarSettled => ToolbarSaved

\* C23: after a toolbar action on an open note, once all pending handlers
\* have completed and if no image load callback changed the body after the
\* action, the stored note with the id of the current note has content
\* equal to the body as it was after the toggle and a modified timestamp not
\* earlier than the one it had before the action.
C23_ToolbarSaveStored ==
  (ToolbarSettled /\ hist.last \in {"toolbar", "noop"}) => ToolbarSaved

\* a toolbar action changed the body while another handler was pending, and
\* its save is in the store with a later timestamp
C23_Witness ==
  /\ ToolbarSettled
  /\ hist.last = "toolbar"
  /\ ~hist.tb.quiet
  /\ Stored(hist.tb.id).content = hist.tb.body
  /\ Stored(hist.tb.id).modified > hist.tb.before.modified


\* the user has only selected notes and edited them
OnlySelectsAndEdits == hist.kinds \subseteq {"click", "title", "body", "toolbar", "noop"}

\* C25: no save stores the body of one note under the id of another: when
\* handleNoteSelect interleaves with pending saves, every record of the
\* notes store carries the content of the note that has its id, and once
\* all handlers have completed appState.currentNote has the id of the note
\* displayed in the editor.
C25_SaveKeepsNoteIdentity ==
  OnlySelectsAndEdits
  => /\ \A id \in DOMAIN store : store[id].content.of = id
     /\ Quiescent => app.currentNote.id = ed.shown


\* C26: no update is lost between title and content edits of one note: after
\* the user has typed in the title and in the body, in any order and with
\* any interleaving of the saves, once the handlers have completed the
\* stored note has the latest title and the latest content.
C26_TitleAndContentKept ==
  (hist.kinds = {"title", "body"} /\ Quiescent)
  => /\ Stored(ed.shown).title = TitleOrDefault(ed.title)
     /\ Stored(ed.shown).content = ed.body


\* the user has deleted the current note and has since neither selected nor
\* created a note
DeletedAndLeft == hist.deleted # {} /\ hist.kinds \cap {"click", "new"} = {}

\* C27: after a confirmed handleDelete has completed and all other pending
\* handlers have finished, the deleted note is absent from the notes store,
\* appState.currentNote is null and the editor is empty and not editable: a
\* save started before or during the deletion never re-creates the note.
C27_DeletedStaysDeleted ==
  (DeletedAndLeft /\ Quiescent)
  => /\ hist.deleted \cap DOMAIN store = {}
     /\ app.currentNote = NoNote
     /\ ed.body = NoContent /\ ed.title = "" /\ ~ed.editable


\* C28: an image dropped or pasted while note N is open is appended to and
\* saved in note N only, also when another note is selected before the load
\* callback of the file reader fires: the body displayed for a note and
\* every stored note hold, of the images dropped on an open note (tag not
\* 0), only those dropped on that note.
C28_ImageStaysInItsNote ==
  /\ ed.body.imgs \ {0} \subseteq {ed.shown}
  /\ \A id \in DOMAIN store : store[id].content.imgs \ {0} \subseteq {id}


\* C29: for each category at most one default folder is ever created
\* automatically: under every interleaving of handleNewNoteInCategory calls
\* for one category the folders store gets at most one folder of it, and
\* every note created by those calls has the id of that folder.
C29_OneDefaultFolder ==
  \A c \in Categories :
    /\ Cardinality({f \in folders : f.category = c}) <= 1
    /\ \A i \in DOMAIN store, j \in DOMAIN store :
         (store[i].folderId # 0 /\ store[j].folderId # 0) => store[i].folderId = store[j].folderId


\* C30: a formatting action that does not change the document (run with
\* nothing pending, on an open note) leaves the stored note wholly
\* unchanged, its modified timestamp included.
C30_NoOpLeavesStoredNote ==
  (hist.last = "noop" /\ hist.tb.id # 0 /\ hist.tb.quiet /\ Quiescent)
  => Stored(hist.tb.id) = hist.tb.before


(***************************************************************************)
(* The list round trip                                                     *)
(***************************************************************************)
\* C31: the list toggle made a list of a block that is in no list; a list
\* toggle of either kind run next, with the selection the first one left,
\* puts a Paragraph with the children of the block (up to text-node
\* merging) where the block was and changes nothing else: the Document is
\* the original again when the block was a Paragraph, and for a block of
\* another kind it is the original with that block turned into a Paragraph.
C31_ListRoundTrip ==
  ListMadeOfBlock =>
    \A t \in ListTypes :
      LET b == NearestUp(last.page, CommonAncestor(last.sel), BlockKinds)
          old == NodeAt(last.page, b)
          off == toggleList(page, sel, t)
      IN /\ HasPath(off.page, b)
         /\ NodeAt(off.page, b).tag = "P"
         /\ Normalize(NodeAt(off.page, b).kids) = Normalize(old.kids)
         /\ Normalize(Doc(off.page))
              = Normalize(Doc(SetNode(last.page, b, [old EXCEPT !.tag = "P"])))
         /\ (old.tag = "P") <=> (Normalize(Doc(off.page)) = Normalize(Doc(last.page)))

\* a Heading1 with text became a list, and toggling the list off gives a
\* Paragraph with that text
C31_Witness ==
  /\ ListMadeOfBlock
  /\ LET b == NearestUp(last.page, CommonAncestor(last.sel), BlockKinds)
     IN /\ NodeAt(last.page, b).tag = "H1"
        /\ TextContent(NodeAt(last.page, b)) # <<>>
        /\ IsList(NodeAt(page, b))
        /\ NodeAt(toggleList(page, sel, "UL").page, b).tag = "P"


(***************************************************************************)
(* Handlers without a current note                                         *)
(***************************************************************************)
\* this step runs handleNoteTitleChange, handleNoteContentChange (from the
\* body, the toolbar or an image load callback), handleExport or
\* handleDelete
HandlerRan ==
  \/ /\ hist'.n = hist.n + 1
     /\ hist'.last \in {"title", "body", "toolbar", "noop", "export", "noexport",
                        "delete", "cancel"}
  \/ /\ hist'.last = "load"
     /\ Len(readers') < Len(readers)

\* C32: while appState.currentNote is null, handleNoteTitleChange,
\* handleNoteContentChange, handleExport and handleDelete start no write to
\* and no delete from the notes store and leave appState unchanged.
C32_NoNoteHandlersDoNothing ==
  [][(app.currentNote = NoNote /\ HandlerRan)
       => (store' = store /\ app' = app /\ queue' = queue)]_vars

\* with no note open since the start, an image was dropped and loaded
\* (handleNoteContentChange), export and delete were pressed, and nothing
\* was written
C32_Witness ==
  /\ app.currentNote = NoNote
  /\ hist.kinds = {"drop", "load", "noexport", "cancel"}
  /\ store = Store0 /\ app = App0 /\ queue = <<>>


(***************************************************************************)
(* The notes list: getFilteredAndSortedNotes over appState.notes,          *)
(* appState.currentFolder (0 for null), appState.searchQuery and           *)
(* appState.sortBy.  A title and a query are sequences of characters; the  *)
(* content of a note is markup, as the innerHTML getter gives it.          *)
(***************************************************************************)
\* String.prototype.toLowerCase
toLowerCase(s) ==
  [i \in 1..Len(s) |-> IF s[i] = "A" THEN "a" ELSE IF s[i] = "B" THEN "b" ELSE s[i]]

\* String.prototype.includes
includes(s, q) == \E i \in 0..(Len(s) - Len(q)) : SubSeq(s, i + 1, i + Len(q)) = q

\* the place of a lower-case letter in the alphabet
Rank(c) == CASE c = "a" -> 1 [] c = "b" -> 2 [] OTHER -> 3

RECURSIVE ComparePrimary(_, _)
\* the order of two strings by their letters, case ignored
ComparePrimary(x, y) ==
  IF x = <<>> /\ y = <<>> THEN 0
  ELSE IF x = <<>> THEN -1
  ELSE IF y = <<>> THEN 1
  ELSE IF Rank(Head(x)) < Rank(Head(y)) THEN -1
  ELSE IF Rank(Head(x)) > Rank(Head(y)) THEN 1
  ELSE ComparePrimary(Tail(x), Tail(y))

RECURSIVE CompareCase(_, _)
\* the order of two strings with the same letters: at the first difference
\* of case the lower-case letter comes first
CompareCase(x, y) ==
  IF x = <<>> \/ y = <<>> THEN 0
  ELSE IF Head(x) = Head(y) THEN CompareCase(Tail(x), Tail(y))
  ELSE IF toLowerCase(<<Head(x)>>) = <<Head(x)>> THEN -1
  ELSE 1

\* String.prototype.localeCompare
localeCompare(x, y) ==
  IF ComparePrimary(toLowerCase(x), toLowerCase(y)) # 0
  THEN ComparePrimary(toLowerCase(x), toLowerCase(y))
  ELSE CompareCase(x, y)

\* extractTextFromHTML(html): the textContent of a div with that innerHTML
extractTextFromHTML(html) == TextContent(Elem("DIV", SetInnerHTML(html)))

\* the compare functions of sortNotesByModified, sortNotesByCreated and
\* sortNotesByTitle
CompareNotes(key, a, b) ==
  CASE key = "modified" -> b.modified - a.modified
    [] key = "created" -> b.created - a.created
    [] key = "title" -> localeCompare(a.title, b.title)

\* x put into the sorted xs before the first element that the compare
\* function places after it
InsertSorted(xs, x, key) ==
  LET after == {i \in 1..Len(xs) : CompareNotes(key, xs[i], x) > 0}
      at == IF after = {} THEN Len(xs) + 1
            ELSE CHOOSE i \in after : \A j \in after : i <= j
  IN SubSeq(xs, 1, at - 1) \o <<x>> \o SubSeq(xs, at, Len(xs))

RECURSIVE SortCopy(_, _)
\* [...notes].sort(compare): a sorted copy; Array.prototype.sort is stable
SortCopy(notes, key) ==
  IF notes = <<>> THEN <<>>
  ELSE InsertSorted(SortCopy(SubSeq(notes, 1, Len(notes) - 1), key), notes[Len(notes)], key)

\* sortNotesByModified comparing a.modified - b.modified
sortNotesByModifiedAscending(notes) ==
  [i \in 1..Len(notes) |-> SortCopy(notes, "modified")[Len(notes) + 1 - i]]

sortNotesByModified(notes) == SortCopy(notes, "modified")

sortNotesByCreated(notes) == SortCopy(notes, "created")

sortNotesByTitle(notes) == SortCopy(notes, "title")

filterNotesByFolder(folderId, notes) ==
  IF folderId # 0
  THEN SelectSeq(notes, LAMBDA note : note.folderId = folderId)
  ELSE notes

searchNotes(query, notes) ==
  LET lowerQuery == toLowerCase(query)
  IN SelectSeq(notes,
               LAMBDA note :
                 \/ includes(toLowerCase(note.title), lowerQuery)
                 \/ includes(toLowerCase(extractTextFromHTML(note.content)), lowerQuery))

getFilteredAndSortedNotes(state) ==
  LET copy == state.notes
      inFolder == IF state.currentFolder # 0
                  THEN filterNotesByFolder(state.currentFolder, copy)
                  ELSE copy
      found == IF state.searchQuery # <<>>
               THEN searchNotes(state.searchQuery, inFolder)
               ELSE inFolder
  IN CASE state.sortBy = "created" -> sortNotesByCreated(found)
       [] state.sortBy = "title" -> sortNotesByTitle(found)
       [] OTHER -> sortNotesByModified(found)

\* renderNotesList(getFilteredAndSortedNotes()) with the state given
Render(state) == [state EXCEPT !.shown = getFilteredAndSortedNotes(state)]

\* the notes of the store: four notes in two folders and in none, with
\* equal timestamps among them
ListNote(id, title, kids, folderId, created, modified) ==
  [id |-> id, title |-> title, content |-> SerializeKids(kids), folderId |-> folderId,
   created |-> created, modified |-> modified]

NotePool ==
  <<ListNote(1, <<"b">>, <<Elem("P", <<T(<<"a">>)>>)>>, 11, 1, 3),
    ListNote(2, <<"a", "b">>, <<Elem("P", <<T(<<"a">>), Elem("EM", <<T(<<"c">>)>>)>>)>>, 11, 2, 1),
    ListNote(3, <<"B">>, <<>>, 12, 3, 1),
    ListNote(4, <<"a">>, <<Elem("H1", <<T(<<"b">>)>>)>>, 0, 2, 2)>>

\* getAll(STORES.NOTES): the notes of the store in the order of their ids
StoredNotes == {SelectSeq(NotePool, LAMBDA n : n.id \in ids) : ids \in SUBSET {1, 2, 3, 4}}

Folders == {11, 12}

Queries == {<<"B">>, <<"c">>, <<"a", "b">>}

SortKeys == {"modified", "created", "title", "date"}

\* the list after refreshNotesList(), all notes shown or a folder selected
InitList ==
  /\ page = Page(Aside, DocBlocks)
  /\ sel = NoRange
  /\ last = [op |-> "load", tag |-> "", page |-> page, sel |-> sel]
  /\ ops = 0
  /\ store = Store0
  /\ folders = {}
  /\ app = App0
  /\ ed = updateEditor(NoNote)
  /\ queue = <<>>
  /\ readers = <<>>
  /\ hist = Hist0
  /\ \E notes \in StoredNotes, folder \in Folders \cup {0} :
       view = Render([NoView EXCEPT !.notes = notes, !.currentFolder = folder])

\* handleSearch: the user types in the search input or clears it
SearchInput ==
  /\ \E q \in (Queries \cup {<<>>}) \ {view.searchQuery} :
       view' = Render([view EXCEPT !.searchQuery = q])
  /\ UNCHANGED <<docVars, store, folders, app, ed, queue, readers, hist>>

\* handleSortChange: the user picks a sort key
SortChange ==
  /\ \E k \in SortKeys \ {view.sortBy} :
       view' = Render([view EXCEPT !.sortBy = k])
  /\ UNCHANGED <<docVars, store, folders, app, ed, queue, readers, hist>>

NextList == SearchInput \/ SortChange

SpecList == InitList /\ [][NextList]_vars


(***************************************************************************)
(* Properties of the notes list                                            *)
(***************************************************************************)
\* the note is in the current folder (any note when none is selected) and
\* its title or its text holds the query, case apart (any note when the
\* query is empty)
Wanted(note) ==
  /\ view.currentFolder = 0 \/ note.folderId = view.currentFolder
  /\ \/ view.searchQuery = <<>>
     \/ \E s \in {note.title, extractTextFromHTML(note.content)} :
          includes(toLowerCase(s), toLowerCase(view.searchQuery))

\* a comes before b, or they are equal, by the sort key selected
InOrder(a, b) ==
  CASE view.sortBy = "created" -> a.created >= b.created
    [] view.sortBy = "title" -> localeCompare(a.title, b.title) <= 0
    [] OTHER -> a.modified >= b.modified

\* the list displayed holds exactly the wanted notes of appState.notes, each
\* once, in the order of the sort key
ListedRight ==
  /\ {view.shown[i] : i \in 1..Len(view.shown)}
       = {n \in {view.notes[i] : i \in 1..Len(view.notes)} : Wanted(n)}
  /\ \A i, j \in 1..Len(view.shown) : i # j => view.shown[i].id # view.shown[j].id
  /\ \A i, j \in 1..Len(view.shown) : i < j => InOrder(view.shown[i], view.shown[j])

\* C33: getFilteredAndSortedNotes returns exactly the notes of
\* appState.notes that are in the current folder (all without a folder
\* selected) and match the search query (all with an empty query), without
\* duplicates, ordered by modified descending, created descending or title
\* ascending as selected, any other sort key counting as modified
\* descending; and no call reorders or modifies appState.notes.
C33_ListFilteredAndSorted == []ListedRight /\ [][view'.notes = view.notes]_vars

\* in a folder, two notes found by a query in capitals and sorted by title
\* stand in the opposite order of appState.notes
C33_Witness ==
  /\ view.currentFolder = 11
  /\ view.searchQuery = <<"B">>
  /\ view.sortBy = "title"
  /\ Len(view.notes) = 4
  /\ Len(view.shown) = 2
  /\ view.shown[1].id > view.shown[2].id

====
